---- MODULE Spec2Model ----
(***************************************************************************)
(* The matrix-multiplication benchmark driver of mmult_Optimized/main.c:   *)
(* command-line parsing, the dimension prompts, allocation of A, B and R,  *)
(* initialisation, the timed kernel invocation and the final printing.     *)
(* The kernels themselves (impl/naive.h, impl/opt.h, impl/vec.h,           *)
(* impl/para.h) are only declared in the sources; an invocation is         *)
(* recorded, its arithmetic is not modelled.  assert() is modelled as      *)
(* active (no NDEBUG is defined in main.c).                                *)
(***************************************************************************)
EXTENDS Integers, Sequences, FiniteSets

VARIABLES
    unread,                                                   \* argc - i of the parse loop (main.c:97):
                                                              \* the arguments not yet examined
    impl, impl_str, run_both, help, nthreads, cpu,            \* main.c:89-94
    rows_A, cols_A, rows_B, cols_B,                           \* main.c:149
    size_A, size_B, size_R, A, B, R,                          \* main.c:173-179
    pc, exit_status, out,                                     \* control, exit(), printed text
    clock_calls, calls, args,                                 \* main.c:199-217
    result_dir,                                               \* create_result_directory
    written, read,                                            \* element indices touched by main
    last_impl_arg, both_seen,                                 \* the -i values read so far
    p_m, p_n, p_w, p_ranges, p_pc                             \* the parallel kernel's row split

driverVars == <<unread, impl, impl_str, run_both, help, nthreads, cpu,
                rows_A, cols_A, rows_B, cols_B, size_A, size_B, size_R, A, B, R,
                pc, exit_status, out, clock_calls, calls, args, result_dir,
                written, read, last_impl_arg, both_seen>>

partVars == <<p_m, p_n, p_w, p_ranges, p_pc>>

vars == <<driverVars, partVars>>

----------------------------------------------------------------------------
(* Bounds of the model *)

\* argc ranges over 1..MaxArgc (the program name plus up to MaxArgc-1
\* arguments), so argc - i starts in 0..MaxArgc-1
MaxArgc == 5

\* size_t is modelled WordBits wide: rows * cols wraps modulo 2^WordBits
WordBits == 2

\* atoi() of the -n value ranges over -MaxAtoi..MaxAtoi, of the -c value
\* over 0..MaxAtoi
MaxAtoi == 1

\* the row split is examined for 1..MaxRows rows
MaxRows == 8

----------------------------------------------------------------------------
(* Program constants *)

num_runs == 10000

nstdevs == 3

NULL == "NULL"

KernelOf == [naive |-> "impl_scalar_naive", opt |-> "impl_scalar_opt",
             vec |-> "impl_vector", para |-> "impl_parallel"]

ImplStrOf == [naive |-> "naive", opt |-> "opt",
              vec |-> "vectorized", para |-> "parallelized"]

KernelNames == {"naive", "opt", "vec", "para"}

\* the strings that can follow -i: the five accepted ones and any other string
ImplArgs == KernelNames \cup {"both", "bogus"}

Modulus == 2 ^ WordBits

Words == 0 .. (Modulus - 1)

AtoiVals == (0 - MaxAtoi) .. MaxAtoi

CpuVals == 0 .. MaxAtoi

\* exit_status while the process is running
NotExited == -1

\* the status of a process killed by abort() (a failed assert)
AbortStatus == 134

\* a local that has been declared but not yet assigned
Indet == -1

\* scanf("%zu") that converts nothing (end of input, not a number)
ScanFail == -1

ScanInputs == Words \cup {ScanFail}

NoArgs == [input |-> "none", output |-> "none", size |-> 0]

NoIdx == [A |-> {}, B |-> {}, R |-> {}]

----------------------------------------------------------------------------
(* Pure helpers *)

\* size_t multiplication and addition
Mul(a, b) == (a * b) % Modulus

Add(a, b) == (a + b) % Modulus

\* faulty variant: the final else of the chain (exit on an unknown name) is lost
KnownImplArg_AcceptsAll(name) == TRUE

\* the strcmp chain of lines 100-113: is the -i value one of the accepted names
KnownImplArg(name) == name \in {"naive", "opt", "vec", "para", "both"}

\* faulty variant: a missing -i is not noticed
UsageError_HelpOnly(h, im, rb) == h

\* the test of line 139
UsageError(h, im, rb) == h \/ (im = NULL /\ ~rb)

\* faulty variant: only cols_A > rows_B counts as a mismatch
DimsMismatch_Greater(c, r) == c > r

\* the loop condition of line 160
DimsMismatch(c, r) == c # r

\* faulty variant: only A is tested
AllocFailed_OnlyA(a, b, r) == a = NULL

\* the test of line 181
AllocFailed(a, b, r) == a = NULL \/ b = NULL \/ r = NULL

\* what scanf leaves in the variable: the converted value, or the variable
\* untouched (an unassigned local then holds an indeterminate word)
ScanStore(old, in) ==
    IF in # ScanFail THEN {in}
    ELSE IF old = Indet THEN Words
    ELSE {old}

\* the indices matrix[i * cols + j] that print_matrix reads (lines 39-41)
print_matrix(rows, cols) ==
    { Add(Mul(r, cols), c) : r \in 0 .. (rows - 1), c \in 0 .. (cols - 1) }

\* the indices the initialisation loops write (lines 188-193)
InitIndices(size) == 0 .. (size - 1)

----------------------------------------------------------------------------
(* The driver: main(), lines 84-225 *)

\* exit(status) and abort(): the process ends where it stands
Exit(status) ==
    /\ pc' = "exit"
    /\ exit_status' = status

DriverInit ==
    /\ unread \in 0 .. (MaxArgc - 1)
    /\ impl = NULL
    /\ impl_str = NULL
    /\ run_both = FALSE
    /\ help = FALSE
    /\ nthreads = 1
    /\ cpu = 0
    /\ rows_A = Indet /\ cols_A = Indet /\ rows_B = Indet /\ cols_B = Indet
    /\ size_A = Indet /\ size_B = Indet /\ size_R = Indet
    /\ A = "unset" /\ B = "unset" /\ R = "unset"
    /\ pc = "parse"
    /\ exit_status = NotExited
    /\ out = {}
    /\ clock_calls = 0
    /\ calls = << >>
    /\ args = NoArgs
    /\ result_dir = "unchecked"
    /\ written = NoIdx
    /\ read = NoIdx
    /\ last_impl_arg = "none"
    /\ both_seen = FALSE

PartIdle ==
    /\ p_m = 0 /\ p_n = 0 /\ p_w = 0
    /\ p_ranges = << >>
    /\ p_pc = "idle"

Init == DriverInit /\ PartIdle

\* lines 98-119: argv[i] is -i or --impl and a value follows it
ParseImpl ==
    /\ pc = "parse"
    /\ unread >= 2
    /\ \E name \in ImplArgs :
        /\ last_impl_arg' = name
        /\ both_seen' = (both_seen \/ name = "both")
        /\ IF ~KnownImplArg(name)
           THEN /\ out' = out \cup {"unknown_impl"}
                /\ Exit(1)
                /\ UNCHANGED <<unread, impl, impl_str, run_both>>
           ELSE /\ unread' = unread - 2
                /\ impl' = IF name \in KernelNames THEN KernelOf[name] ELSE impl
                /\ impl_str' = IF name \in KernelNames THEN ImplStrOf[name] ELSE impl_str
                /\ run_both' = (run_both \/ name = "both")
                /\ UNCHANGED <<pc, exit_status, out>>
    /\ UNCHANGED <<help, nthreads, cpu, rows_A, cols_A, rows_B, cols_B,
                   size_A, size_B, size_R, A, B, R, clock_calls, calls, args,
                   result_dir, written, read, partVars>>

\* lines 121-125: argv[i] is -n or --nthreads and a value follows it
ParseNthreads ==
    /\ pc = "parse"
    /\ unread >= 2
    /\ \E v \in AtoiVals : nthreads' = v
    /\ unread' = unread - 2
    /\ UNCHANGED <<impl, impl_str, run_both, help, cpu, rows_A, cols_A, rows_B,
                   cols_B, size_A, size_B, size_R, A, B, R, pc, exit_status,
                   out, clock_calls, calls, args, result_dir, written, read,
                   last_impl_arg, both_seen, partVars>>

\* lines 127-131: argv[i] is -c or --cpu and a value follows it
ParseCpu ==
    /\ pc = "parse"
    /\ unread >= 2
    /\ \E v \in CpuVals : cpu' = v
    /\ unread' = unread - 2
    /\ UNCHANGED <<impl, impl_str, run_both, help, nthreads, rows_A, cols_A,
                   rows_B, cols_B, size_A, size_B, size_R, A, B, R, pc,
                   exit_status, out, clock_calls, calls, args, result_dir,
                   written, read, last_impl_arg, both_seen, partVars>>

\* lines 99, 122, 128: argv[i] is -i, -n or -c and is the last argument, so
\* assert(++i < argc) fails and the process aborts
ParseAssertFails ==
    /\ pc = "parse"
    /\ unread = 1
    /\ unread' = 0
    /\ Exit(AbortStatus)
    /\ UNCHANGED <<impl, impl_str, run_both, help, nthreads, cpu, rows_A,
                   cols_A, rows_B, cols_B, size_A, size_B, size_R, A, B, R,
                   out, clock_calls, calls, args, result_dir, written, read,
                   last_impl_arg, both_seen, partVars>>

\* lines 133-136: argv[i] is -h or --help; the loop is left at once
ParseHelp ==
    /\ pc = "parse"
    /\ unread >= 1
    /\ help' = TRUE
    /\ pc' = "usage"
    /\ UNCHANGED <<unread, impl, impl_str, run_both, nthreads, cpu, rows_A,
                   cols_A, rows_B, cols_B, size_A, size_B, size_R, A, B, R,
                   exit_status, out, clock_calls, calls, args, result_dir,
                   written, read, last_impl_arg, both_seen, partVars>>

\* lines 97-137: argv[i] is none of the options; the loop moves on
ParseOther ==
    /\ pc = "parse"
    /\ unread >= 1
    /\ unread' = unread - 1
    /\ UNCHANGED <<impl, impl_str, run_both, help, nthreads, cpu, rows_A,
                   cols_A, rows_B, cols_B, size_A, size_B, size_R, A, B, R, pc,
                   exit_status, out, clock_calls, calls, args, result_dir,
                   written, read, last_impl_arg, both_seen, partVars>>

\* line 97: i < argc is false
ParseEnd ==
    /\ pc = "parse"
    /\ unread = 0
    /\ pc' = "usage"
    /\ UNCHANGED <<unread, impl, impl_str, run_both, help, nthreads, cpu,
                   rows_A, cols_A, rows_B, cols_B, size_A, size_B, size_R, A, B,
                   R, exit_status, out, clock_calls, calls, args, result_dir,
                   written, read, last_impl_arg, both_seen, partVars>>

\* lines 139-146
CheckUsage ==
    /\ pc = "usage"
    /\ IF UsageError(help, impl, run_both)
       THEN /\ out' = out \cup {"usage"}
            /\ Exit(IF help THEN 0 ELSE 1)
       ELSE /\ pc' = "rows_A"
            /\ UNCHANGED <<exit_status, out>>
    /\ UNCHANGED <<unread, impl, impl_str, run_both, help, nthreads, cpu,
                   rows_A, cols_A, rows_B, cols_B, size_A, size_B, size_R, A, B,
                   R, clock_calls, calls, args, result_dir, written, read,
                   last_impl_arg, both_seen, partVars>>

\* lines 151-152
PromptRowsA ==
    /\ pc = "rows_A"
    /\ out' = out \cup {"prompt_rows_A"}
    /\ \E in \in ScanInputs : \E v \in ScanStore(rows_A, in) : rows_A' = v
    /\ pc' = "cols_A"
    /\ UNCHANGED <<unread, impl, impl_str, run_both, help, nthreads, cpu,
                   cols_A, rows_B, cols_B, size_A, size_B, size_R, A, B, R,
                   exit_status, clock_calls, calls, args, result_dir, written,
                   read, last_impl_arg, both_seen, partVars>>

\* lines 154-155
PromptColsA ==
    /\ pc = "cols_A"
    /\ out' = out \cup {"prompt_cols_A"}
    /\ \E in \in ScanInputs : \E v \in ScanStore(cols_A, in) : cols_A' = v
    /\ pc' = "rows_B"
    /\ UNCHANGED <<unread, impl, impl_str, run_both, help, nthreads, cpu,
                   rows_A, rows_B, cols_B, size_A, size_B, size_R, A, B, R,
                   exit_status, clock_calls, calls, args, result_dir, written,
                   read, last_impl_arg, both_seen, partVars>>

\* lines 157-158
PromptRowsB ==
    /\ pc = "rows_B"
    /\ out' = out \cup {"prompt_rows_B"}
    /\ \E in \in ScanInputs : \E v \in ScanStore(rows_B, in) : rows_B' = v
    /\ pc' = "dims"
    /\ UNCHANGED <<unread, impl, impl_str, run_both, help, nthreads, cpu,
                   rows_A, cols_A, cols_B, size_A, size_B, size_R, A, B, R,
                   exit_status, clock_calls, calls, args, result_dir, written,
                   read, last_impl_arg, both_seen, partVars>>

\* lines 160-164: one turn of the loop
RepromptRowsB ==
    /\ pc = "dims"
    /\ DimsMismatch(cols_A, rows_B)
    /\ out' = out \cup {"dims_mismatch"}
    /\ \E in \in ScanInputs : \E v \in ScanStore(rows_B, in) : rows_B' = v
    /\ UNCHANGED <<unread, impl, impl_str, run_both, help, nthreads, cpu,
                   rows_A, cols_A, cols_B, size_A, size_B, size_R, A, B, R, pc,
                   exit_status, clock_calls, calls, args, result_dir, written,
                   read, last_impl_arg, both_seen, partVars>>

\* lines 160, 166-170: the loop is left, cols_B is read and
\* create_result_directory() runs (lines 49-58)
PromptColsB ==
    /\ pc = "dims"
    /\ ~DimsMismatch(cols_A, rows_B)
    /\ out' = out \cup {"prompt_cols_B"}
    /\ \E in \in ScanInputs : \E v \in ScanStore(cols_B, in) : cols_B' = v
    /\ \E d \in {"exists", "created", "mkdir_failed"} : result_dir' = d
    /\ pc' = "alloc"
    /\ UNCHANGED <<unread, impl, impl_str, run_both, help, nthreads, cpu,
                   rows_A, cols_A, rows_B, size_A, size_B, size_R, A, B, R,
                   exit_status, clock_calls, calls, args, written, read,
                   last_impl_arg, both_seen, partVars>>

\* lines 173-184: the three sizes, the three malloc calls, then the test;
\* malloc returns NULL or a block
Allocate ==
    /\ pc = "alloc"
    /\ size_A' = Mul(rows_A, cols_A)
    /\ size_B' = Mul(rows_B, cols_B)
    /\ size_R' = Mul(rows_A, cols_B)
    /\ \E a \in {NULL, "heap"}, b \in {NULL, "heap"}, r \in {NULL, "heap"} :
        /\ A' = a /\ B' = b /\ R' = r
        /\ IF AllocFailed(a, b, r)
           THEN /\ out' = out \cup {"alloc_failed"}
                /\ Exit(1)
           ELSE /\ pc' = "init"
                /\ UNCHANGED <<exit_status, out>>
    /\ UNCHANGED <<unread, impl, impl_str, run_both, help, nthreads, cpu,
                   rows_A, cols_A, rows_B, cols_B, clock_calls, calls, args,
                   result_dir, written, read, last_impl_arg, both_seen, partVars>>

\* lines 187-197: A and B are filled and printed
Initialize ==
    /\ pc = "init"
    /\ written' = [written EXCEPT !.A = InitIndices(size_A),
                                  !.B = InitIndices(size_B)]
    /\ read' = [read EXCEPT !.A = print_matrix(rows_A, cols_A),
                            !.B = print_matrix(rows_B, cols_B)]
    /\ out' = out \cup {"matrix_A", "matrix_B"}
    /\ pc' = "run"
    /\ UNCHANGED <<unread, impl, impl_str, run_both, help, nthreads, cpu,
                   rows_A, cols_A, rows_B, cols_B, size_A, size_B, size_R, A, B,
                   R, exit_status, clock_calls, calls, args, result_dir,
                   last_impl_arg, both_seen, partVars>>

\* lines 200-203 and 210-211: the descriptor is built and clock() is read
RunStart ==
    /\ pc = "run"
    /\ args' = [input |-> "A", output |-> "R", size |-> rows_A]
    /\ clock_calls' = clock_calls + 1
    /\ out' = IF run_both THEN out \cup {"running_naive"} ELSE out
    /\ pc' = "invoke"
    /\ UNCHANGED <<unread, impl, impl_str, run_both, help, nthreads, cpu,
                   rows_A, cols_A, rows_B, cols_B, size_A, size_B, size_R, A, B,
                   R, exit_status, calls, result_dir, written, read,
                   last_impl_arg, both_seen, partVars>>

\* lines 204 and 212: the kernel is called with &args
Invoke ==
    /\ pc = "invoke"
    /\ calls' = Append(calls, IF run_both THEN "impl_scalar_naive" ELSE impl)
    /\ pc' = "stop"
    /\ UNCHANGED <<unread, impl, impl_str, run_both, help, nthreads, cpu,
                   rows_A, cols_A, rows_B, cols_B, size_A, size_B, size_R, A, B,
                   R, exit_status, out, clock_calls, args, result_dir, written,
                   read, last_impl_arg, both_seen, partVars>>

\* lines 205-208 and 213-216: clock() again, the runtime and R are printed
RunStop ==
    /\ pc = "stop"
    /\ clock_calls' = clock_calls + 1
    /\ out' = out \cup {"runtime", "matrix_R"}
    /\ read' = [read EXCEPT !.R = print_matrix(rows_A, cols_B)]
    /\ pc' = "free"
    /\ UNCHANGED <<unread, impl, impl_str, run_both, help, nthreads, cpu,
                   rows_A, cols_A, rows_B, cols_B, size_A, size_B, size_R, A, B,
                   R, exit_status, calls, args, result_dir, written,
                   last_impl_arg, both_seen, partVars>>

\* lines 220-224
Free ==
    /\ pc = "free"
    /\ A' = "freed" /\ B' = "freed" /\ R' = "freed"
    /\ pc' = "done"
    /\ exit_status' = 0
    /\ UNCHANGED <<unread, impl, impl_str, run_both, help, nthreads, cpu,
                   rows_A, cols_A, rows_B, cols_B, size_A, size_B, size_R, out,
                   clock_calls, calls, args, result_dir, written, read,
                   last_impl_arg, both_seen, partVars>>

Next ==
    \/ ParseImpl
    \/ ParseNthreads
    \/ ParseCpu
    \/ ParseAssertFails
    \/ ParseHelp
    \/ ParseOther
    \/ ParseEnd
    \/ CheckUsage
    \/ PromptRowsA
    \/ PromptColsA
    \/ PromptRowsB
    \/ RepromptRowsB
    \/ PromptColsB
    \/ Allocate
    \/ Initialize
    \/ RunStart
    \/ Invoke
    \/ RunStop
    \/ Free

Spec == Init /\ [][Next]_vars

----------------------------------------------------------------------------
(* The parallel kernel's split of the m output rows among nthreads workers. *)
(* impl_parallel is declared in impl/para.h and defined outside main.c; the *)
(* split is the one its design fixes: the first m mod nthreads workers get  *)
(* one row more than the others, ranges are contiguous and in worker order. *)

\* faulty variant: the remainder rows are given to nobody
PartSize_FloorOnly(w, m, n) == m \div n

\* rows of worker w (0-based)
PartSize(w, m, n) == (m \div n) + (IF w < m % n THEN 1 ELSE 0)

RECURSIVE RangeStart(_, _, _)
\* first row of worker w: the rows of workers 0..w-1 come before it
RangeStart(w, m, n) ==
    IF w = 0 THEN 0 ELSE RangeStart(w - 1, m, n) + PartSize(w - 1, m, n)

RangeEnd(w, m, n) == RangeStart(w, m, n) + PartSize(w, m, n)

PartInit ==
    /\ DriverInit
    /\ unread = 0
    /\ p_m \in 1 .. MaxRows
    /\ p_n \in 1 .. p_m
    /\ p_w = 0
    /\ p_ranges = << >>
    /\ p_pc = "spawn"

\* worker p_w is started on its half-open row range [start, end)
SpawnWorker ==
    /\ p_pc = "spawn"
    /\ p_w < p_n
    /\ p_ranges' = Append(p_ranges,
                          <<RangeStart(p_w, p_m, p_n), RangeEnd(p_w, p_m, p_n)>>)
    /\ p_w' = p_w + 1
    /\ UNCHANGED <<p_m, p_n, p_pc, driverVars>>

\* every worker has been started; the kernel joins them all and returns
JoinWorkers ==
    /\ p_pc = "spawn"
    /\ p_w = p_n
    /\ p_pc' = "joined"
    /\ UNCHANGED <<p_m, p_n, p_w, p_ranges, driverVars>>

PartNext ==
    \/ SpawnWorker
    \/ JoinWorkers

PartSpec == PartInit /\ [][PartNext]_vars

----------------------------------------------------------------------------
(* Properties *)

Range(seq) == { seq[k] : k \in 1 .. Len(seq) }

Prompts == {"prompt_rows_A", "prompt_cols_A", "prompt_rows_B", "prompt_cols_B"}

\* nothing of the benchmark has happened: no prompt, no allocation, no
\* clock() reading, no kernel call
NothingAttempted ==
    /\ out \cap Prompts = {}
    /\ A = "unset" /\ B = "unset" /\ R = "unset"
    /\ clock_calls = 0
    /\ calls = << >>

\* the buffers and the sizes a descriptor hands to the kernel
ArgsBuffers(a) == {a.input, a.output}

ArgsSizes(a) == {a.size}

\* C1: once the parser has read a -i value that is none of naive, opt, vec,
\* para, both, the program has reported it and exited with a non-zero status,
\* and it has never prompted, allocated, read the clock or called a kernel.
C1_UnknownImplRejected ==
    last_impl_arg = "bogus" =>
        /\ pc = "exit"
        /\ exit_status = 1
        /\ "unknown_impl" \in out
        /\ NothingAttempted

C1_Witness ==
    /\ last_impl_arg = "bogus"
    /\ both_seen
    /\ pc = "exit"

\* C2: whenever A, B and R have been allocated or a kernel has been called,
\* cols_A = rows_B, whatever was entered (or failed to be read) at the prompts.
C2_DimsCompatible ==
    (A # "unset" \/ calls # << >>) => cols_A = rows_B

C2_Witness ==
    /\ "dims_mismatch" \in out
    /\ A = "heap"
    /\ calls # << >>
    /\ cols_A = rows_B

\* C3: while the thread count given with -n is <= 0, the matrices are not
\* allocated, the clock is not read and no kernel is called.
C3_BadThreadCountRejected ==
    nthreads <= 0 =>
        /\ ~(A = "heap" /\ B = "heap" /\ R = "heap")
        /\ clock_calls = 0
        /\ calls = << >>

\* C4: if malloc returned NULL for A, B or R, the failure has been reported,
\* the program has exited with status 1, and no buffer was initialised or
\* printed, the clock was not read and no kernel was called.
C4_AllocFailureFatal ==
    (A = NULL \/ B = NULL \/ R = NULL) =>
        /\ pc = "exit"
        /\ exit_status = 1
        /\ "alloc_failed" \in out
        /\ written = NoIdx /\ read = NoIdx
        /\ out \cap {"matrix_A", "matrix_B", "matrix_R", "runtime"} = {}
        /\ clock_calls = 0
        /\ calls = << >>

C4_Witness ==
    /\ A = "heap" /\ B = NULL
    /\ pc = "exit"
    /\ size_A > 0

\* C5: when the run has been reported, the kernel has been called num_runs
\* times, each call between two readings of the clock.
C5_RunsNumRunsTimes ==
    pc = "done" =>
        /\ Len(calls) = num_runs
        /\ clock_calls = 2 * num_runs

\* C6: at every kernel call the descriptor holds A, B and R and the three
\* dimensions rows_A, cols_A (= rows_B) and cols_B.
C6_DescriptorComplete ==
    calls # << >> =>
        /\ {"A", "B", "R"} \subseteq ArgsBuffers(args)
        /\ {rows_A, cols_A, cols_B} \subseteq ArgsSizes(args)

\* C7: once the workers are joined, there is one range per worker, each of
\* ceil(m/n) rows for the first m mod n workers and floor(m/n) for the rest,
\* inside [0, m), and every row of [0, m) lies in exactly one range.
C7_TruePartition ==
    p_pc = "joined" =>
        /\ Len(p_ranges) = p_n
        /\ \A w \in 1 .. Len(p_ranges) :
            /\ 0 <= p_ranges[w][1]
            /\ p_ranges[w][1] <= p_ranges[w][2]
            /\ p_ranges[w][2] <= p_m
            /\ p_ranges[w][2] - p_ranges[w][1] =
                   IF w - 1 < p_m % p_n THEN (p_m + p_n - 1) \div p_n
                   ELSE p_m \div p_n
        /\ \A row \in 0 .. (p_m - 1) :
            Cardinality({ w \in 1 .. Len(p_ranges) :
                            p_ranges[w][1] <= row /\ row < p_ranges[w][2] }) = 1

C7_Witness ==
    /\ p_pc = "joined"
    /\ p_n > 1
    /\ p_m % p_n # 0
    /\ p_m % p_n # p_n - 1

\* C8: when -i both was given and the program has finished, every kernel
\* that -i can select has been called.
C8_BothRunsAll ==
    (pc = "done" /\ both_seen) =>
        \A k \in KernelNames : KernelOf[k] \in Range(calls)

\* the program has ended, all of argv has been examined and no -i was in it
\* (a run ended by a failed assert, where the last argument is an option
\* lacking its value, is left aside)
NoImplArgGiven ==
    /\ last_impl_arg = "none"
    /\ pc \in {"exit", "done"}
    /\ exit_status # AbortStatus
    /\ (unread = 0 \/ (help /\ unread = 1))

\* C9 as stated: the pointer called is never NULL; a finished run whose last
\* -i value names a kernel has called exactly that kernel, once; with no -i
\* the program prints the usage and exits with status 1 without a call.
C9_LastImplArgRuns ==
    /\ \A k \in 1 .. Len(calls) : calls[k] # NULL
    /\ (pc = "done" /\ last_impl_arg \in KernelNames) =>
           calls = << KernelOf[last_impl_arg] >>
    /\ NoImplArgGiven =>
           /\ "usage" \in out
           /\ exit_status = 1
           /\ calls = << >>

\* C9 as amended: the pointer called is never NULL and at most one call is
\* made; a finished run has called impl_scalar_naive once if some -i value
\* read was both, and otherwise the kernel named by the last -i value, once;
\* when the parser finishes (no option lacks its value) without reading any
\* -i, the program prints the usage and exits without a call, with status 0
\* if -h was given and 1 otherwise.
C9_KernelCalled ==
    /\ \A k \in 1 .. Len(calls) : calls[k] # NULL
    /\ Len(calls) <= 1
    /\ pc = "done" =>
           IF both_seen
           THEN calls = << "impl_scalar_naive" >>
           ELSE /\ last_impl_arg \in KernelNames
                /\ calls = << KernelOf[last_impl_arg] >>
    /\ (last_impl_arg = "none" /\ pc \in {"exit", "done"}
            /\ exit_status # AbortStatus) =>
           /\ "usage" \in out
           /\ exit_status = (IF help THEN 0 ELSE 1)
           /\ calls = << >>

C9_Witness ==
    /\ pc = "done"
    /\ both_seen
    /\ last_impl_arg = "opt"
    /\ impl = "impl_scalar_opt"
    /\ calls = << "impl_scalar_naive" >>

\* C10: every index main writes when filling A and B, and reads when
\* printing A, B and R, is below the element count the buffer was allocated
\* for.
C10_IndicesInBounds ==
    /\ \A x \in written.A \cup read.A : x < size_A
    /\ \A x \in written.B \cup read.B : x < size_B
    /\ \A x \in written.R \cup read.R : x < size_R

====
